---- MODULE Spec2Model ----
(***************************************************************************)
(* EasyInv API server (src/server.js): an Express application holding two  *)
(* in-memory arrays, inventoryData and connectionLog.  Every step of the   *)
(* model is one inbound HTTP request run through the middleware chain      *)
(* (cors, bodyParser.json, express.static, request logger) and, when it    *)
(* gets that far, through the matching route handler.  Node runs each      *)
(* handler to completion, so a request is one atomic action.               *)
(***************************************************************************)
EXTENDS Integers, Sequences, FiniteSets, TLC

(***************************************************************************)
(* Bounds of the model.                                                    *)
(***************************************************************************)
\* requests that reach the logger in one behaviour
MaxLog == 3
\* cap on the length of inventoryData
MaxStore == 3

(***************************************************************************)
(* JavaScript values, tagged by type.  An object carries a function from   *)
(* its own property names to values; an array carries a sequence.          *)
(***************************************************************************)
Undef == [t |-> "undefined"]
Null == [t |-> "null"]
NaN == [t |-> "NaN"]
Str(s) == [t |-> "string", s |-> s]
Num(n) == [t |-> "number", n |-> n]
Obj(m) == [t |-> "object", m |-> m]
Arr(a) == [t |-> "array", a |-> a]

EmptyMap == [k \in {} |-> Undef]

\* ToBoolean, as used by `&&`, `||` and `if (x)`
Truthy(v) ==
    CASE v.t = "undefined" -> FALSE
      [] v.t = "null" -> FALSE
      [] v.t = "NaN" -> FALSE
      [] v.t = "string" -> v.s # ""
      [] v.t = "number" -> v.n # 0
      [] OTHER -> TRUE

\* a || b
OrElse(a, b) == IF Truthy(a) THEN a ELSE b

\* Array.isArray(v)
IsArray(v) == v.t = "array"

\* a === b: objects and arrays are compared by identity, and a value parsed
\* from one request is never identical to one parsed from another
StrictEq(a, b) ==
    /\ a.t \notin {"object", "array", "NaN"}
    /\ a = b

\* r.k for a plain object held as a map: undefined when k is no own property
Field(r, k) == IF k \in DOMAIN r THEN r[k] ELSE Undef

\* property names "0", "1", ... of a sequence of length n
IndexKeys(n) == {ToString(i - 1) : i \in 1..n}

\* own enumerable properties copied by `...v` in an object literal
Spread(v) ==
    CASE v.t = "object" -> v.m
      [] v.t = "array" ->
            [k \in IndexKeys(Len(v.a)) |->
                v.a[CHOOSE i \in 1..Len(v.a) : ToString(i - 1) = k]]
      [] v.t = "string" ->
            [k \in IndexKeys(Len(v.s)) |->
                LET i == CHOOSE j \in 1..Len(v.s) : ToString(j - 1) = k
                IN  Str(SubSeq(v.s, i, i))]
      [] OTHER -> EmptyMap

\* v.k for any value that is not undefined or null
Get(v, k) == IF v.t = "object" THEN Field(v.m, k) ELSE Undef

\* { ...a, <the properties of b> }: later properties win
Assign(a, b) ==
    [k \in DOMAIN a \cup DOMAIN b |-> IF k \in DOMAIN b THEN b[k] ELSE a[k]]

\* String(v) of a primitive, as done by a template literal or Array.join
ToStr(v) ==
    CASE v.t = "string" -> v.s
      [] v.t = "number" -> ToString(v.n)
      [] v.t = "null" -> "null"
      [] v.t = "NaN" -> "NaN"
      [] OTHER -> "undefined"

(***************************************************************************)
(* parseInt(string) with no radix: leading blanks, an optional sign, then  *)
(* the longest run of decimal digits; NaN when there is none.  (A 0x       *)
(* prefix selects base 16 in JavaScript; no input of the model has one.)   *)
(***************************************************************************)
Digits == <<"0", "1", "2", "3", "4", "5", "6", "7", "8", "9">>

IsDigit(c) == \E d \in 1..10 : Digits[d] = c

DigitVal(c) == (CHOOSE d \in 1..10 : Digits[d] = c) - 1

RECURSIVE DigitRun(_, _, _)
\* value of the digits of s from position i on, continuing from acc
DigitRun(s, i, acc) ==
    IF i > Len(s) \/ ~IsDigit(SubSeq(s, i, i))
    THEN acc
    ELSE DigitRun(s, i + 1, 10 * acc + DigitVal(SubSeq(s, i, i)))

RECURSIVE SkipSpace(_, _)
SkipSpace(s, i) ==
    IF i <= Len(s) /\ SubSeq(s, i, i) = " " THEN SkipSpace(s, i + 1) ELSE i

ParseInt(s) ==
    LET b == SkipSpace(s, 1)
        signed == b <= Len(s) /\ SubSeq(s, b, b) \in {"-", "+"}
        neg == signed /\ SubSeq(s, b, b) = "-"
        d == IF signed THEN b + 1 ELSE b
    IN  IF d > Len(s) \/ ~IsDigit(SubSeq(s, d, d))
        THEN NaN
        ELSE Num((IF neg THEN -1 ELSE 1) * DigitRun(s, d, 0))

\* unary minus
Negate(v) == IF v.t = "number" THEN Num(-v.n) ELSE NaN

\* Array.prototype.slice(start) with the end left out
Slice(seq, start) ==
    LET len == Len(seq)
        rel == IF start.t = "number" THEN start.n ELSE 0
        k == IF rel < 0
             THEN (IF len + rel > 0 THEN len + rel ELSE 0)
             ELSE (IF rel < len THEN rel ELSE len)
    IN  SubSeq(seq, k + 1, len)

(***************************************************************************)
(* Values the environment supplies.  The clock, the client address and the *)
(* user agent are each held at one value: no handler branches on them.     *)
(***************************************************************************)
NowISO == "2024-01-01T00:00:00.000Z"
ClientIp == "::1"
UserAgent == Str("EasyInv/1.0")

\* mappings a client sends as one inventory scan
ScanFull ==
    [k \in {"timestamp", "site", "floor", "room", "shelf", "productBarcode",
            "quantity"} |->
        CASE k = "timestamp" -> Str("2024-01-01 10:00:00")
          [] k = "site" -> Str("A")
          [] k = "floor" -> Str("1")
          [] k = "room" -> Str("R")
          [] k = "shelf" -> Str("S")
          [] k = "productBarcode" -> Str("123")
          [] OTHER -> Num(5)]
\* same barcode again, floor sent as a number, quantity left out
ScanDup ==
    [k \in {"site", "floor", "productBarcode"} |->
        CASE k = "site" -> Str("A")
          [] k = "floor" -> Num(1)
          [] OTHER -> Str("123")]
\* no barcode, site in lower case
ScanBare ==
    [k \in {"site", "room"} |-> IF k = "site" THEN Str("a") ELSE Str("R")]

Scans == {ScanFull, ScanDup, ScanBare}

\* JSON arrays sent as data
DataArrays ==
    {Arr(<<>>), Arr(<<Obj(ScanFull)>>), Arr(<<Obj(ScanFull), Obj(ScanFull)>>),
     Arr(<<Obj(ScanBare), Obj(ScanFull)>>)}

Body(action, data, source) ==
    Obj([k \in {"action", "data", "source"} |->
            CASE k = "action" -> action
              [] k = "data" -> data
              [] OTHER -> source])

\* req.body as bodyParser.json leaves it: the parsed JSON object or array,
\* {} when the request carries no JSON body (body-parser 1.x) or undefined
\* (body-parser 2.x)
Bodies ==
    {Body(Str("add_inventory"), d, Undef) :
        d \in {Undef, Null, Num(0), Num(5), Str("ab"), Arr(<<Obj(ScanFull)>>)}
                \cup {Obj(m) : m \in Scans}}
    \cup {Body(Str("sync_inventory"), d, Undef) :
        d \in DataArrays \cup {Undef, Obj(ScanFull)}}
    \cup {Body(a, Obj(ScanFull), Undef) : a \in {Undef, Str("delete_all")}}
    \cup {Body(Str("delete_all"), Arr(<<Obj(ScanFull)>>), Undef),
          Body(Str("add_inventory"), Obj(ScanFull), Str("EasyInv")),
          Body(Str("sync_inventory"), Arr(<<Obj(ScanBare)>>), Str("")),
          Obj(EmptyMap), Arr(<<>>), Undef}

\* req.query: every value is the string that followed `name=` in the URL
Queries ==
    {EmptyMap,
     "site" :> Str("A"), "site" :> Str(""),
     "floor" :> Str("1"), "product" :> Str("123"),
     ("site" :> Str("a")) @@ ("room" :> Str("R")),
     ("site" :> Str("A")) @@ ("shelf" :> Str("S")),
     ("site" :> Str("A")) @@ ("limit" :> Str("1")),
     "limit" :> Str("0"), "limit" :> Str("2"),
     "limit" :> Str("-1"), "limit" :> Str("abc")}

(***************************************************************************)
(* State: the two module-level arrays, and the request being served with   *)
(* the response it was given.                                              *)
(***************************************************************************)
VARIABLES inventoryData, connectionLog, req, res

vars == <<inventoryData, connectionLog, req, res>>

Request(method, path, query, body) ==
    [method |-> method, path |-> path, query |-> query, body |-> body]

Init ==
    /\ inventoryData = <<>>
    /\ connectionLog = <<>>
    /\ req = Request("", "", EmptyMap, Undef)
    /\ res = [status |-> 0]

(***************************************************************************)
(* Middleware registered ahead of the logger.  Each of them can end the    *)
(* request, and then nothing registered after it runs.                     *)
(***************************************************************************)
Methods == {"GET", "POST"}
Paths == {"/api/inventory"}

\* cors(): an OPTIONS preflight is answered 204 by the middleware itself
CorsPreflight ==
    \E path \in Paths :
        /\ req' = Request("OPTIONS", path, EmptyMap, Undef)
        /\ res' = [status |-> 204]
        /\ UNCHANGED <<inventoryData, connectionLog>>

\* bodyParser.json(): a JSON body that does not parse is passed to next(err),
\* which skips to the error handler (400)
BodyParseError ==
    \E method \in Methods, path \in Paths :
        /\ req' = Request(method, path, EmptyMap, [t |-> "malformed"])
        /\ res' = [status |-> 400, error |-> "entity.parse.failed"]
        /\ UNCHANGED <<inventoryData, connectionLog>>

\* express.static('public'): a GET for a file that exists under public/ is
\* sent by the middleware itself
ServeStatic ==
    \E path \in {"/"} :
        /\ req' = Request("GET", path, EmptyMap, Undef)
        /\ res' = [status |-> 200, file |-> "public/index.html"]
        /\ UNCHANGED <<inventoryData, connectionLog>>

(***************************************************************************)
(* The request logger, and the routes behind it.                           *)
(***************************************************************************)
LogEntry(method, path) ==
    [timestamp |-> NowISO, method |-> method, path |-> path,
     ip |-> ClientIp, userAgent |-> UserAgent]

\* the logger middleware: push one entry, then next()
LogRequest(method, path) ==
    /\ Len(connectionLog) < MaxLog
    /\ connectionLog' = Append(connectionLog, LogEntry(method, path))

\* validateApiKey: the comparison is commented out, next() is always called
ValidateApiKey == TRUE

\* GET /api/status
GetStatus ==
    /\ LogRequest("GET", "/api/status")
    /\ req' = Request("GET", "/api/status", EmptyMap, Undef)
    /\ res' = [status |-> 200,
               body |-> [status |-> "online", timestamp |-> NowISO,
                         totalRecords |-> Len(inventoryData),
                         version |-> "1.0.0"]]
    /\ UNCHANGED inventoryData

\* { ...v, receivedAt: new Date().toISOString(), source: source || 'Unknown' }
Stamp(v, source) ==
    Assign(Spread(v),
           ("receivedAt" :> Str(NowISO))
               @@ ("source" :> OrElse(source, Str("Unknown"))))

\* mutant of PushRecord: unshift instead of push
PushRecordFront(store, data, source) == <<Stamp(data, source)>> \o store

\* inventoryData.push(record)
PushRecord(store, data, source) == Append(store, Stamp(data, source))

\* mutant of AddedResponse: recordId counted from 1
AddedResponseOneBased(store) ==
    [status |-> 201,
     body |-> [success |-> TRUE, message |-> "Inventory record added",
               recordId |-> Len(store), totalRecords |-> Len(store)]]

\* the 201 response of add_inventory, built after the push
AddedResponse(store) ==
    [status |-> 201,
     body |-> [success |-> TRUE, message |-> "Inventory record added",
               recordId |-> Len(store) - 1, totalRecords |-> Len(store)]]

\* data.map(record => ({ ...record, receivedAt, source }))
NewRecords(data, source) == [i \in 1..Len(data.a) |-> Stamp(data.a[i], source)]

\* mutant of PushAll: unshift(...newRecords) instead of push
PushAllFront(store, newRecords) == newRecords \o store

\* inventoryData.push(...newRecords)
PushAll(store, newRecords) == store \o newRecords

\* the 200 response of sync_inventory, built after the push
SyncedResponse(store, newRecords) ==
    [status |-> 200,
     body |-> [success |-> TRUE, message |-> "Bulk sync completed",
               recordsAdded |-> Len(newRecords), totalRecords |-> Len(store)]]

InvalidResponse ==
    [status |-> 400, body |-> [success |-> FALSE, error |-> "Invalid request format"]]

FaultResponse ==
    [status |-> 500, body |-> [success |-> FALSE, error |-> "Internal server error"]]

\* the store and the response the POST handler leaves, as <<store, response>>
IngestResult(store, body) ==
    IF body.t \in {"undefined", "null"}
    THEN \* destructuring req.body throws; the catch block answers
         <<store, FaultResponse>>
    ELSE LET action == Get(body, "action")
             data == Get(body, "data")
             source == Get(body, "source")
         IN  IF StrictEq(action, Str("add_inventory")) /\ Truthy(data)
             THEN LET pushed == PushRecord(store, data, source)
                  IN  <<pushed, AddedResponse(pushed)>>
             ELSE IF StrictEq(action, Str("sync_inventory")) /\ IsArray(data)
             THEN LET newRecords == NewRecords(data, source)
                      pushed == PushAll(store, newRecords)
                  IN  <<pushed, SyncedResponse(pushed, newRecords)>>
             ELSE <<store, InvalidResponse>>

\* POST /api/inventory
PostInventory ==
    \E body \in Bodies :
        LET result == IngestResult(inventoryData, body)
        IN  /\ LogRequest("POST", "/api/inventory")
            /\ ValidateApiKey
            /\ Len(result[1]) <= MaxStore
            /\ req' = Request("POST", "/api/inventory", EmptyMap, body)
            /\ inventoryData' = result[1]
            /\ res' = result[2]

\* if (value) filtered = filtered.filter(r => r[key] === value)
FilterBy(filtered, key, value) ==
    IF Truthy(value)
    THEN SelectSeq(filtered, LAMBDA r : StrictEq(Field(r, key), value))
    ELSE filtered

\* mutant of ApplyFilters: the product filter reads r.product
ApplyFiltersProductKey(store, query) ==
    LET bySite == FilterBy(store, "site", Field(query, "site"))
        byFloor == FilterBy(bySite, "floor", Field(query, "floor"))
        byRoom == FilterBy(byFloor, "room", Field(query, "room"))
        byShelf == FilterBy(byRoom, "shelf", Field(query, "shelf"))
    IN  FilterBy(byShelf, "product", Field(query, "product"))

\* the five filters, applied in the order site, floor, room, shelf, product
ApplyFilters(store, query) ==
    LET bySite == FilterBy(store, "site", Field(query, "site"))
        byFloor == FilterBy(bySite, "floor", Field(query, "floor"))
        byRoom == FilterBy(byFloor, "room", Field(query, "room"))
        byShelf == FilterBy(byRoom, "shelf", Field(query, "shelf"))
    IN  FilterBy(byShelf, "productBarcode", Field(query, "product"))

\* if (limit) filtered = filtered.slice(-parseInt(limit))
ApplyLimit(filtered, limit) ==
    IF Truthy(limit)
    THEN Slice(filtered, Negate(ParseInt(ToStr(limit))))
    ELSE filtered

\* GET /api/inventory
GetInventory ==
    \E query \in Queries :
        LET filtered == ApplyLimit(ApplyFilters(inventoryData, query),
                                   Field(query, "limit"))
        IN  /\ LogRequest("GET", "/api/inventory")
            /\ ValidateApiKey
            /\ req' = Request("GET", "/api/inventory", query, Undef)
            /\ res' = [status |-> 200,
                       body |-> [success |-> TRUE,
                                 totalRecords |-> Len(inventoryData),
                                 filteredRecords |-> Len(filtered),
                                 data |-> filtered]]
            /\ UNCHANGED inventoryData

RECURSIVE SumQuantity(_)
\* reduce((sum, r) => sum + (r.quantity || 0), 0); quantities are numbers
SumQuantity(store) ==
    IF store = <<>> THEN 0
    ELSE SumQuantity(SubSeq(store, 1, Len(store) - 1))
            + OrElse(Field(store[Len(store)], "quantity"), Num(0)).n

\* new Set(inventoryData.map(r => r.productBarcode)).size
UniqueProducts(store) ==
    Cardinality({Field(store[i], "productBarcode") : i \in 1..Len(store)})

RECURSIVE DistinctTruthy(_, _)
\* [...new Set(inventoryData.map(r => r[key]).filter(Boolean))]: the truthy
\* values of the field, each once, in order of first occurrence
DistinctTruthy(store, key) ==
    IF store = <<>> THEN <<>>
    ELSE LET before == DistinctTruthy(SubSeq(store, 1, Len(store) - 1), key)
             v == Field(store[Len(store)], key)
         IN  IF Truthy(v) /\ \A i \in 1..Len(before) : before[i] # v
             THEN Append(before, v)
             ELSE before

\* GET /api/stats
GetStats ==
    /\ LogRequest("GET", "/api/stats")
    /\ req' = Request("GET", "/api/stats", EmptyMap, Undef)
    /\ res' = [status |-> 200,
               body |-> [totalRecords |-> Len(inventoryData),
                         totalProducts |-> SumQuantity(inventoryData),
                         uniqueProducts |-> UniqueProducts(inventoryData),
                         sites |-> DistinctTruthy(inventoryData, "site"),
                         floors |-> DistinctTruthy(inventoryData, "floor"),
                         rooms |-> DistinctTruthy(inventoryData, "room"),
                         shelves |-> DistinctTruthy(inventoryData, "shelf"),
                         lastUpdate |->
                            IF Len(inventoryData) > 0
                            THEN Field(inventoryData[Len(inventoryData)],
                                       "receivedAt")
                            ELSE Null]]
    /\ UNCHANGED inventoryData

DefaultLogLimit == 50

\* parseInt(req.query.limit) || 50
LogLimit(query) ==
    OrElse(ParseInt(ToStr(Field(query, "limit"))), Num(DefaultLogLimit))

\* GET /api/logs; the log already holds the entry of this request
GetLogs ==
    \E query \in {EmptyMap, "limit" :> Str("1")} :
        /\ LogRequest("GET", "/api/logs")
        /\ req' = Request("GET", "/api/logs", query, Undef)
        /\ res' = [status |-> 200,
                   body |-> [logs |-> Slice(connectionLog',
                                            Negate(LogLimit(query))),
                             totalLogs |-> Len(connectionLog')]]
        /\ UNCHANGED inventoryData

\* the response of DELETE, from the count taken before the store is emptied
DeletedResponse(count) ==
    [status |-> 200,
     body |-> [success |-> TRUE,
               message |-> ToString(count) \o " records deleted",
               totalRecords |-> 0]]

\* mutant of Cleared: only a local alias of the array is reset
ClearedAlias(store) == store

\* inventoryData = []
Cleared(store) == <<>>

\* DELETE /api/inventory; the query is never read
DeleteInventory ==
    \E query \in {EmptyMap, "site" :> Str("A")} :
        /\ LogRequest("DELETE", "/api/inventory")
        /\ ValidateApiKey
        /\ req' = Request("DELETE", "/api/inventory", query, Undef)
        /\ inventoryData' = Cleared(inventoryData)
        /\ res' = DeletedResponse(Len(inventoryData))

RECURSIVE Join(_, _)
\* Array.prototype.join(sep) over strings
Join(strs, sep) ==
    IF strs = <<>> THEN ""
    ELSE IF Len(strs) = 1 THEN strs[1]
    ELSE Join(SubSeq(strs, 1, Len(strs) - 1), sep) \o sep \o strs[Len(strs)]

\* `"${value || fallback}"`
Quoted(value, fallback) == "\"" \o ToStr(OrElse(value, Str(fallback))) \o "\""

CsvHeaders ==
    <<"Timestamp", "Site", "Floor", "Room", "Shelf", "Product_Barcode",
      "Quantity", "Received_At">>

\* mutant of CsvRow: a missing location field is left empty
CsvRowEmptyLocation(record) ==
    Join(<<Quoted(Field(record, "timestamp"), ""),
           Quoted(Field(record, "site"), ""),
           Quoted(Field(record, "floor"), ""),
           Quoted(Field(record, "room"), ""),
           Quoted(Field(record, "shelf"), ""),
           Quoted(Field(record, "productBarcode"), ""),
           ToStr(OrElse(Field(record, "quantity"), Num(0))),
           Quoted(Field(record, "receivedAt"), "")>>, ",")

\* one record's row, its eight cells joined by commas
CsvRow(record) ==
    Join(<<Quoted(Field(record, "timestamp"), ""),
           Quoted(Field(record, "site"), "NULL"),
           Quoted(Field(record, "floor"), "NULL"),
           Quoted(Field(record, "room"), "NULL"),
           Quoted(Field(record, "shelf"), "NULL"),
           Quoted(Field(record, "productBarcode"), ""),
           ToStr(OrElse(Field(record, "quantity"), Num(0))),
           Quoted(Field(record, "receivedAt"), "")>>, ",")

\* csvRows: the header line, then inventoryData.forEach(record => push(row))
CsvRows(store) ==
    <<Join(CsvHeaders, ",")>> \o [i \in 1..Len(store) |-> CsvRow(store[i])]

\* GET /api/export/csv
ExportCsv ==
    /\ LogRequest("GET", "/api/export/csv")
    /\ req' = Request("GET", "/api/export/csv", EmptyMap, Undef)
    /\ res' = [status |-> 200, type |-> "text/csv",
               body |-> Join(CsvRows(inventoryData), "\n")]
    /\ UNCHANGED inventoryData

\* GET /api/export/json
ExportJson ==
    /\ LogRequest("GET", "/api/export/json")
    /\ req' = Request("GET", "/api/export/json", EmptyMap, Undef)
    /\ res' = [status |-> 200, type |-> "application/json",
               body |-> inventoryData]
    /\ UNCHANGED inventoryData

\* GET / reaches this route only when express.static found no index.html, so
\* sendFile finds none either and the request ends 404
Root ==
    /\ LogRequest("GET", "/")
    /\ req' = Request("GET", "/", EmptyMap, Undef)
    /\ res' = [status |-> 404]
    /\ UNCHANGED inventoryData

\* a request no route matches: logged, then Express answers 404
NotFound ==
    \E r \in {<<"PUT", "/api/inventory">>} :
        /\ LogRequest(r[1], r[2])
        /\ req' = Request(r[1], r[2], EmptyMap, Undef)
        /\ res' = [status |-> 404]
        /\ UNCHANGED inventoryData

Next ==
    \/ CorsPreflight
    \/ BodyParseError
    \/ ServeStatic
    \/ GetStatus
    \/ PostInventory
    \/ GetInventory
    \/ GetStats
    \/ GetLogs
    \/ DeleteInventory
    \/ ExportCsv
    \/ ExportJson
    \/ Root
    \/ NotFound

Spec == Init /\ [][Next]_vars

(***************************************************************************)
(* Properties.  A step of Next is one request; req' and res' are that      *)
(* request and its response, the unprimed variables the state it met.      *)
(***************************************************************************)

\* the request r got past bodyParser.json and is for this method and path
Reached(r, method, path) ==
    /\ r.method = method
    /\ r.path = path
    /\ r.body.t # "malformed"

\* the POST body parsed, names this action and carries data of this type
Ingest(r, action, type) ==
    /\ Reached(r, "POST", "/api/inventory")
    /\ r.body.t = "object"
    /\ Get(r.body, "action") = Str(action)
    /\ Get(r.body, "data").t = type

\* record carries every property of the mapping the client sent, apart from
\* the two the server stamps
Carries(record, sent) ==
    \A k \in DOMAIN sent \ {"receivedAt", "source"} :
        k \in DOMAIN record /\ record[k] = sent[k]

\* C1: add_inventory with one mapping as data grows the store by exactly one
\* record, the new record is the last element, and the answer is 201 with
\* success, totalRecords = the new length and recordId = new length - 1.
AddAppendsOne ==
    [][Ingest(req', "add_inventory", "object") =>
        /\ Len(inventoryData') = Len(inventoryData) + 1
        /\ SubSeq(inventoryData', 1, Len(inventoryData)) = inventoryData
        /\ Carries(inventoryData'[Len(inventoryData')],
                   Get(req'.body, "data").m)
        /\ res'.status = 201
        /\ res'.body.success = TRUE
        /\ res'.body.totalRecords = Len(inventoryData')
        /\ res'.body.recordId = Len(inventoryData') - 1]_vars

\* a single mapping was added to a store that already held records
AddAppendsOneWitness ==
    /\ Ingest(req, "add_inventory", "object")
    /\ res.status = 201
    /\ res.body.recordId = 2
    /\ Len(inventoryData) = 3

\* C2: sync_inventory with an array of N elements (N >= 0) grows the store
\* by exactly N, the new records sit at the end in the order of the array,
\* and the answer is 200 with recordsAdded = N and totalRecords = the new
\* length.
SyncAppendsAll ==
    [][Ingest(req', "sync_inventory", "array") =>
        LET sent == Get(req'.body, "data").a
            old == Len(inventoryData)
        IN  /\ Len(inventoryData') = old + Len(sent)
            /\ SubSeq(inventoryData', 1, old) = inventoryData
            /\ \A i \in 1..Len(sent) :
                   Carries(inventoryData'[old + i], Spread(sent[i]))
            /\ res'.status = 200
            /\ res'.body.success = TRUE
            /\ res'.body.recordsAdded = Len(sent)
            /\ res'.body.totalRecords = Len(inventoryData')]_vars

\* two different records were synced onto a store that held one
SyncAppendsAllWitness ==
    /\ Ingest(req, "sync_inventory", "array")
    /\ Get(req.body, "data").a = <<Obj(ScanBare), Obj(ScanFull)>>
    /\ res.status = 200
    /\ res.body.recordsAdded = 2
    /\ Len(inventoryData) = 3

\* the body has the shape its action asks for
WellShaped(body) ==
    \/ /\ Get(body, "action") = Str("add_inventory")
       /\ Get(body, "data").t = "object"
    \/ /\ Get(body, "action") = Str("sync_inventory")
       /\ Get(body, "data").t = "array"

\* C3: a POST /api/inventory whose action is neither add_inventory nor
\* sync_inventory, or whose data is missing or of the wrong shape for the
\* action, is answered 400 with success = false.
MalformedRequestRejected ==
    [][(/\ Reached(req', "POST", "/api/inventory")
        /\ req'.body.t \in {"object", "array"}
        /\ ~WellShaped(req'.body)) =>
        /\ res'.status = 400
        /\ res'.body.success = FALSE]_vars

\* the n most recently inserted elements of seq, in order (all of it when n
\* exceeds its length, none when n <= 0)
Newest(seq, n) ==
    LET keep == IF n < 0 THEN 0 ELSE IF n > Len(seq) THEN Len(seq) ELSE n
    IN  SubSeq(seq, Len(seq) - keep + 1, Len(seq))

\* C4: when limit is present, GET /api/inventory returns at most limit
\* records, the most recently inserted ones of the filtered result in their
\* original order (here for every limit that reads as a number).
LimitKeepsNewest ==
    [][(/\ Reached(req', "GET", "/api/inventory")
        /\ "limit" \in DOMAIN req'.query
        /\ ParseInt(req'.query["limit"].s).t = "number") =>
        LET n == ParseInt(req'.query["limit"].s).n
        IN  /\ Len(res'.body.data) <= n
            /\ res'.body.data
                 = Newest(ApplyFilters(inventoryData, req'.query), n)]_vars

\* the record field each filter parameter is compared with
FilterField ==
    [f \in {"site", "floor", "room", "shelf", "product"} |->
        IF f = "product" THEN "productBarcode" ELSE f]

\* record r passes every filter that query q carries with a non-empty value
PassesAll(r, q) ==
    \A f \in DOMAIN FilterField :
        (f \in DOMAIN q /\ q[f].s # "") =>
            /\ FilterField[f] \in DOMAIN r
            /\ r[FilterField[f]] = q[f]

\* C5: GET /api/inventory with any subset of the filters returns exactly the
\* stored records, in insertion order, whose fields all equal the given
\* values; filteredRecords is the length of what is returned, totalRecords
\* the full store length, and the store is left unchanged.  (Exactness is
\* for calls that carry no limit; with one, every record returned still
\* passes the filters.)
FilterExact ==
    [][Reached(req', "GET", "/api/inventory") =>
        LET q == req'.query
            Passes(r) == PassesAll(r, q)
            expected == SelectSeq(inventoryData, Passes)
            got == res'.body.data
        IN  /\ "limit" \notin DOMAIN q => got = expected
            /\ \A i \in 1..Len(got) : PassesAll(got[i], q)
            /\ res'.body.filteredRecords = Len(got)
            /\ res'.body.totalRecords = Len(inventoryData)
            /\ inventoryData' = inventoryData]_vars

\* two filters together selected some, not all, of three stored records
FilterExactWitness ==
    /\ Reached(req, "GET", "/api/inventory")
    /\ DOMAIN req.query = {"site", "shelf"}
    /\ Len(inventoryData) = 3
    /\ res.body.filteredRecords = 1
    /\ res.body.data[1] = inventoryData[2]

\* DELETE /api/inventory was logged and no POST /api/inventory after it
ClearedSince(log) ==
    \E d \in 1..Len(log) :
        /\ log[d].method = "DELETE"
        /\ log[d].path = "/api/inventory"
        /\ \A j \in (d + 1)..Len(log) :
               ~(log[j].method = "POST" /\ log[j].path = "/api/inventory")

\* a GET /api/inventory served while no ingest has followed the last clear
\* returns nothing
EmptyAfterClear ==
    (Reached(req, "GET", "/api/inventory") /\ ClearedSince(connectionLog)) =>
        /\ res.body.data = <<>>
        /\ res.body.filteredRecords = 0
        /\ res.body.totalRecords = 0

\* C6: DELETE /api/inventory, whatever its query, reports the number of
\* records present just before the call and totalRecords = 0, and a GET
\* /api/inventory that follows with no ingest in between returns zero
\* records with totalRecords = 0.
ClearReportsAndEmpties ==
    [][/\ Reached(req', "DELETE", "/api/inventory") =>
            /\ res'.body.message
                 = ToString(Len(inventoryData)) \o " records deleted"
            /\ res'.body.totalRecords = 0
       /\ EmptyAfterClear']_vars

\* records were stored, cleared by a DELETE carrying a filter, then queried
ClearReportsAndEmptiesWitness ==
    /\ Reached(req, "GET", "/api/inventory")
    /\ Len(connectionLog) = 3
    /\ connectionLog[1].method = "POST"
    /\ connectionLog[2].method = "DELETE"
    /\ res.body.data = <<>>

\* C7: every inbound request appends exactly one entry to the Log and no
\* request removes or changes an entry, so the Log length counts the
\* requests received.
EveryRequestLogged ==
    [][/\ Len(connectionLog') = Len(connectionLog) + 1
       /\ SubSeq(connectionLog', 1, Len(connectionLog)) = connectionLog]_vars

\* C8: only a POST /api/inventory answered 201 or 200 and DELETE
\* /api/inventory change the store: the first appends after the records
\* already held, which keep their fields and positions, the second empties
\* it; every other request, a POST answered 400 included, leaves it as it
\* was.
StoreAppendOnly ==
    [][/\ inventoryData' # inventoryData =>
            \/ /\ Reached(req', "POST", "/api/inventory")
               /\ res'.status \in {200, 201}
               /\ Len(inventoryData') > Len(inventoryData)
            \/ /\ Reached(req', "DELETE", "/api/inventory")
               /\ inventoryData' = <<>>
       /\ ~Reached(req', "DELETE", "/api/inventory") =>
            SubSeq(inventoryData', 1, Len(inventoryData)) = inventoryData
       /\ (Reached(req', "POST", "/api/inventory")
                /\ res'.status \notin {200, 201}) =>
            inventoryData' = inventoryData]_vars

\* a record ingested after a clear is the whole store, at position 0
StoreAppendOnlyWitness ==
    /\ Reached(req, "POST", "/api/inventory")
    /\ Len(connectionLog) = 3
    /\ connectionLog[1].method = "POST"
    /\ connectionLog[2].method = "DELETE"
    /\ res.status = 200
    /\ Len(inventoryData) = 2

\* the productBarcode values that stored records carry
Barcodes(store) ==
    {store[i]["productBarcode"] :
        i \in {j \in 1..Len(store) : "productBarcode" \in DOMAIN store[j]}}

\* C9: GET /api/stats reports uniqueProducts = the number of distinct
\* productBarcode values among the stored records, also when some records
\* carry no productBarcode.
UniqueProductsCountsBarcodes ==
    Reached(req, "GET", "/api/stats") =>
        res.body.uniqueProducts = Cardinality(Barcodes(inventoryData))

\* the cell a field must show: the value in quotes, or this text when the
\* record has no such field
Cell(record, key, missing) ==
    IF key \in DOMAIN record
    THEN "\"" \o ToStr(record[key]) \o "\""
    ELSE missing

\* the row a record must show, cell by cell
ExpectedRow(r) ==
    <<Cell(r, "timestamp", "\"\""),
      Cell(r, "site", "\"NULL\""),
      Cell(r, "floor", "\"NULL\""),
      Cell(r, "room", "\"NULL\""),
      Cell(r, "shelf", "\"NULL\""),
      Cell(r, "productBarcode", "\"\""),
      IF "quantity" \in DOMAIN r THEN ToStr(r["quantity"]) ELSE "0",
      Cell(r, "receivedAt", "\"\"")>>

\* the fixed header row
HeaderRow ==
    <<"Timestamp", "Site", "Floor", "Room", "Shelf", "Product_Barcode",
      "Quantity", "Received_At">>

\* lines, each one its cells separated by commas, separated by line feeds
Lines(rows) == Join([i \in 1..Len(rows) |-> Join(rows[i], ",")], "\n")

\* C10: the CSV export is the fixed header row followed by exactly one row
\* per stored record, in store order and unfiltered; a missing site, floor,
\* room or shelf shows as NULL and a missing quantity as 0.
CsvOneRowPerRecord ==
    [][Reached(req', "GET", "/api/export/csv") =>
        res'.body
          = Lines(<<HeaderRow>>
                    \o [i \in 1..Len(inventoryData) |->
                            ExpectedRow(inventoryData[i])])]_vars

\* an export of two records, the second without floor, shelf and quantity
CsvOneRowPerRecordWitness ==
    /\ Reached(req, "GET", "/api/export/csv")
    /\ Len(inventoryData) = 2
    /\ DOMAIN ScanFull \subseteq DOMAIN inventoryData[1]
    /\ {"floor", "shelf", "quantity"} \cap DOMAIN inventoryData[2] = {}
    /\ "site" \in DOMAIN inventoryData[2]
====
